---- MODULE Spec2Model ----
(***************************************************************************)
(* Domain resolution of the multi-site platform: the in-memory site cache  *)
(* (src/lib/cache/siteCache.ts), the site service that reads the sites     *)
(* collection through it (siteService, src/scripts/init-navigation.js      *)
(* lines 260-371) and the tenant resolution middleware (src/middleware.ts). *)
(*                                                                         *)
(* Spec        requests, expiry, invalidation and out-of-band store writes *)
(* SpecGate    the status gate over every stored status, path, credential  *)
(* SpecDomains the lookup by domain name with two sites in the store       *)
(* SpecStale   requests against a store updated through the repository     *)
(* SpecLive    SpecStale with the fairness of the event loop               *)
(* SpecClient  clients with their headers, following the redirects         *)
(* SpecRepository  handlers calling the repositories of src/lib/repository *)
(* SpecLookup  the lookup by tenant id next to the lookup by domain name   *)
(***************************************************************************)
EXTENDS Integers, Sequences, FiniteSets, TLC

\* ------------------------------------------------------------------------
\* Bounds of the model
\* ------------------------------------------------------------------------
\* number of times the clock is advanced in one behaviour
MaxTicks == 2
\* number of out-of-band writes to the sites collection in one behaviour
MaxAdminOps == 1
\* the middleware invocations that can be in flight at the same time
Requests == {"r1", "r2"}

\* ------------------------------------------------------------------------
\* Values
\* ------------------------------------------------------------------------
\* siteCache.ts:15  const CACHE_EXPIRATION_MS = 5 * 60 * 1000
CACHE_EXPIRATION_MS == 5 * 60 * 1000

\* Date.now() advances by whole expiration periods, so that an entry is read
\* at the age 0, at exactly the expiration time and beyond it
TickStep == CACHE_EXPIRATION_MS

\* host names a request may carry
Hosts == {"tenant1.example.com", "unknown.example.com"}

\* values of the x-mock-domain header ("" when the header is absent)
MockHeaders == {"", "unknown.example.com"}

\* values of NEXT_PUBLIC_MOCK_DOMAIN ("" when unset)
MockEnvs == {"", "tenant1.example.com"}

\* SiteConfig.status
Statuses == {"active", "inactive", "maintenance"}

\* document ids of the sites collection
TenantIds == {"tenant1"}

\* process.env.NODE_ENV
NodeEnvs == {"production", "development"}

\* a path is the sequence of the pieces of its string
MaintenancePath == <<"/", "maintenance">>
SiteInactivePath == <<"/", "site-inactive">>
SiteNotFoundPath == <<"/", "site-not-found">>
Paths == {<<"/">>, MaintenancePath, SiteInactivePath, SiteNotFoundPath}

\* null of a SiteConfig | null
NullSite == [tenantId |-> "null", domainName |-> "null", status |-> "null"]

\* undefined of siteCache[domainName]
NoEntry == [site |-> NullSite, timestamp |-> -1]

\* a document that does not exist in the sites collection
NoDoc == [domainName |-> "null", status |-> "null"]

\* mockData.ts: mockSites
mockSites ==
  [d \in {"localhost:3000", "tenant1.example.com", "tenant2.example.com",
          "inactive.example.com"} |->
     CASE d = "localhost:3000" ->
            [tenantId |-> "default-tenant", domainName |-> d, status |-> "active"]
       [] d = "tenant1.example.com" ->
            [tenantId |-> "tenant1", domainName |-> d, status |-> "active"]
       [] d = "tenant2.example.com" ->
            [tenantId |-> "tenant2", domainName |-> d, status |-> "active"]
       [] d = "inactive.example.com" ->
            [tenantId |-> "inactive-tenant", domainName |-> d, status |-> "inactive"]]

\* the keys the cache object can get: the domains a request can resolve
CacheKeys == Hosts \cup ((MockHeaders \cup MockEnvs) \ {""})

\* ------------------------------------------------------------------------
\* State
\* ------------------------------------------------------------------------
VARIABLES
  siteCache,      \* siteCache.ts:12, domain name -> {site, timestamp} or NoEntry
  now,            \* Date.now()
  sites,          \* the sites collection of the store: document id -> data
  adminOps,       \* how many out-of-band writes the collection has seen
  nodeEnv,        \* process.env.NODE_ENV
  useMockData,    \* USE_MOCK_DATA
  envMockDomain,  \* process.env.NEXT_PUBLIC_MOCK_DOMAIN ("" when unset)
  req,            \* the middleware invocations in flight
  history,        \* per domain, the last change made to its cache entry
  request,        \* the NextRequest each invocation is made with
  tenantContext,  \* TenantContext.ts:7, _tenantId of the singleton
  pages,          \* the pages collection of the store: document id -> data
  calls           \* the repository and site service calls of the handlers

vars == <<siteCache, now, sites, adminOps, nodeEnv, useMockData,
          envMockDomain, req, history, request, tenantContext, pages, calls>>

\* what the middleware, the site service and the cache never touch
handlerVars == <<request, tenantContext, pages, calls>>

\* ------------------------------------------------------------------------
\* siteCache.ts
\* ------------------------------------------------------------------------
\* siteCache.ts:31  now - cachedItem.timestamp > CACHE_EXPIRATION_MS
HasExpiredInclusive(cachedItem, t) == t - cachedItem.timestamp >= CACHE_EXPIRATION_MS
HasExpired(cachedItem, t) == t - cachedItem.timestamp > CACHE_EXPIRATION_MS

\* getCachedSite: the value returned and the cache it leaves behind
getCachedSiteAlwaysMiss(cache, domainName, t) ==
  [result |-> NullSite, cache |-> cache]
getCachedSiteKeepsExpired(cache, domainName, t) ==
  LET cachedItem == cache[domainName] IN
  IF cachedItem = NoEntry THEN [result |-> NullSite, cache |-> cache]
  ELSE IF HasExpired(cachedItem, t)
       THEN [result |-> NullSite, cache |-> cache]
       ELSE [result |-> cachedItem.site, cache |-> cache]
getCachedSiteRefreshes(cache, domainName, t) ==
  LET cachedItem == cache[domainName] IN
  IF cachedItem = NoEntry THEN [result |-> NullSite, cache |-> cache]
  ELSE IF HasExpired(cachedItem, t)
       THEN [result |-> NullSite,
             cache |-> [cache EXCEPT ![domainName] = NoEntry]]
       ELSE [result |-> cachedItem.site,
             cache |-> [cache EXCEPT ![domainName].timestamp = t]]
getCachedSite(cache, domainName, t) ==
  LET cachedItem == cache[domainName] IN
  IF cachedItem = NoEntry THEN [result |-> NullSite, cache |-> cache]
  ELSE IF HasExpired(cachedItem, t)
       THEN [result |-> NullSite,
             cache |-> [cache EXCEPT ![domainName] = NoEntry]]
       ELSE [result |-> cachedItem.site, cache |-> cache]

\* Object.keys(siteCache): the domains that have an entry
Entries(cache) == {d \in DOMAIN cache : cache[d] # NoEntry}

\* a capacity of one entry less than the host names of Hosts
Capacity == Cardinality(Hosts) - 1

\* cacheSite
cacheSiteEvicting(cache, domainName, site, t) ==
  LET put(c) == [c EXCEPT ![domainName] = [site |-> site, timestamp |-> t]] IN
  IF cache[domainName] = NoEntry /\ Cardinality(Entries(cache)) >= Capacity
  THEN LET oldest == CHOOSE d \in Entries(cache) :
                       \A e \in Entries(cache) :
                         cache[d].timestamp <= cache[e].timestamp
       IN put([cache EXCEPT ![oldest] = NoEntry])
  ELSE put(cache)
cacheSiteKeepsFirst(cache, domainName, site, t) ==
  IF cache[domainName] = NoEntry
  THEN [cache EXCEPT ![domainName] = [site |-> site, timestamp |-> t]]
  ELSE cache
cacheSite(cache, domainName, site, t) ==
  [cache EXCEPT ![domainName] = [site |-> site, timestamp |-> t]]

\* clearSiteCache
clearSiteCacheNoop(cache, domainName) == cache
clearSiteCacheEveryKey(cache, domainName) == [d \in DOMAIN cache |-> NoEntry]
clearSiteCache(cache, domainName) == [cache EXCEPT ![domainName] = NoEntry]

\* clearAllSiteCache
clearAllSiteCacheFirstOnly(cache) ==
  LET first == CHOOSE d \in DOMAIN cache : TRUE IN
  [cache EXCEPT ![first] = NoEntry]
clearAllSiteCache(cache) == [d \in DOMAIN cache |-> NoEntry]

\* ------------------------------------------------------------------------
\* middleware.ts
\* ------------------------------------------------------------------------
\* String.prototype.startsWith on paths
startsWith(path, prefix) ==
  /\ Len(path) >= Len(prefix)
  /\ SubSeq(path, 1, Len(prefix)) = prefix

\* middleware.ts:76-81  config.matcher: the middleware runs on the paths that
\* match /((?!_next/|api/|favicon.ico|maintenance|site-inactive|site-not-found).*)
matchesEveryPath(path) == Len(path) >= 1 /\ path[1] = "/"
matches(path) ==
  /\ Len(path) >= 1
  /\ path[1] = "/"
  /\ IF Len(path) = 1
     THEN TRUE
     ELSE path[2] \notin {"_next/", "api/", "favicon.ico", "maintenance",
                          "site-inactive", "site-not-found"}

\* middleware.ts:16  headerMockDomain || envMockDomain || hostname
resolveDomain(headerMockDomain, envMock, hostname) ==
  IF headerMockDomain # "" THEN headerMockDomain
  ELSE IF envMock # "" THEN envMock
  ELSE hostname

\* NextResponse.redirect(new URL(path, request.url))
Redirect(path) ==
  [kind |-> "redirect", location |-> path,
   tenantHeader |-> "", statusHeader |-> "", tenantCookie |-> ""]

\* the response of NextResponse.next() with the headers and cookie set on it
Continue(tenantHeader, statusHeader, tenantCookie) ==
  [kind |-> "next", location |-> <<>>,
   tenantHeader |-> tenantHeader, statusHeader |-> statusHeader,
   tenantCookie |-> tenantCookie]

NoResponse ==
  [kind |-> "none", location |-> <<>>,
   tenantHeader |-> "", statusHeader |-> "", tenantCookie |-> ""]

\* middleware.ts:32-72, what the middleware returns for the site it resolved
middlewareResponseStrict(site, pathname, env) ==
  IF site # NullSite
  THEN IF site.status = "maintenance" /\ ~startsWith(pathname, MaintenancePath)
       THEN Redirect(MaintenancePath)
       ELSE IF site.status = "inactive"
            THEN Redirect(SiteInactivePath)
            ELSE Continue(site.tenantId, site.status, site.tenantId)
  ELSE Redirect(SiteNotFoundPath)
middlewareResponseDomainHeader(site, pathname, env) ==
  IF site # NullSite
  THEN IF site.status = "maintenance" /\ ~startsWith(pathname, MaintenancePath)
       THEN Redirect(MaintenancePath)
       ELSE IF site.status = "inactive"
            THEN Redirect(SiteInactivePath)
            ELSE Continue(site.domainName, site.status, site.tenantId)
  ELSE IF env = "production"
       THEN Redirect(SiteNotFoundPath)
       ELSE Continue("unknown", "", "")
middlewareResponseNoMaintenance(site, pathname, env) ==
  IF site # NullSite
  THEN IF site.status = "inactive"
       THEN Redirect(SiteInactivePath)
       ELSE Continue(site.tenantId, site.status, site.tenantId)
  ELSE IF env = "production"
       THEN Redirect(SiteNotFoundPath)
       ELSE Continue("unknown", "", "")
middlewareResponseInactiveAsNotFound(site, pathname, env) ==
  IF site # NullSite
  THEN IF site.status = "maintenance" /\ ~startsWith(pathname, MaintenancePath)
       THEN Redirect(MaintenancePath)
       ELSE IF site.status = "inactive"
            THEN Redirect(SiteNotFoundPath)
            ELSE Continue(site.tenantId, site.status, site.tenantId)
  ELSE IF env = "production"
       THEN Redirect(SiteNotFoundPath)
       ELSE Continue("unknown", "", "")
middlewareResponseDraftAsInactive(site, pathname, env) ==
  IF site # NullSite
  THEN IF site.status = "maintenance" /\ ~startsWith(pathname, MaintenancePath)
       THEN Redirect(MaintenancePath)
       ELSE IF site.status \in {"inactive", "draft", "preview"}
            THEN Redirect(SiteInactivePath)
            ELSE Continue(site.tenantId, site.status, site.tenantId)
  ELSE IF env = "production"
       THEN Redirect(SiteNotFoundPath)
       ELSE Continue("unknown", "", "")
middlewareResponseArchivedAsNull(site, pathname, env) ==
  IF site # NullSite /\ site.status # "archived"
  THEN IF site.status = "maintenance" /\ ~startsWith(pathname, MaintenancePath)
       THEN Redirect(MaintenancePath)
       ELSE IF site.status = "inactive"
            THEN Redirect(SiteInactivePath)
            ELSE Continue(site.tenantId, site.status, site.tenantId)
  ELSE IF env = "production"
       THEN Redirect(SiteNotFoundPath)
       ELSE Continue("unknown", "", "")
middlewareResponse(site, pathname, env) ==
  IF site # NullSite
  THEN IF site.status = "maintenance" /\ ~startsWith(pathname, MaintenancePath)
       THEN Redirect(MaintenancePath)
       ELSE IF site.status = "inactive"
            THEN Redirect(SiteInactivePath)
            ELSE Continue(site.tenantId, site.status, site.tenantId)
  ELSE IF env = "production"
       THEN Redirect(SiteNotFoundPath)
       ELSE Continue("unknown", "", "")

\* ------------------------------------------------------------------------
\* siteService (src/scripts/init-navigation.js:260-371)
\* ------------------------------------------------------------------------
\* init-navigation.js:291  mockSites[domainName] || mockSites['localhost:3000']
mockLookupDefaultOnly(domainName) == mockSites["localhost:3000"]
mockLookup(domainName) ==
  IF domainName \in DOMAIN mockSites
  THEN mockSites[domainName]
  ELSE mockSites["localhost:3000"]

\* init-navigation.js:305  where('domainName', '==', domainName)
matchingDocs(collection, domainName) ==
  {id \in DOMAIN collection :
     collection[id] # NoDoc /\ collection[id].domainName = domainName}

\* init-navigation.js:315-319  {...siteDoc.data(), tenantId: siteDoc.id}
siteOfDoc(collection, id) ==
  [tenantId |-> id,
   domainName |-> collection[id].domainName,
   status |-> collection[id].status]

\* init-navigation.js:308-322  an empty snapshot is answered with null and
\* leaves the cache alone, a found site is cached under the requested domain
cacheFoundAlways(cache, domainName, site, t) ==
  cacheSite(cache, domainName, site, t)
cacheFound(cache, domainName, site, t) ==
  IF site = NullSite THEN cache ELSE cacheSite(cache, domainName, site, t)

\* init-navigation.js:306  await getDocs(q) of a request q rejects: control
\* passes to the catch block, the query is not sent again
onGetDocsRejectedRetry(q) ==
  IF q.fetches < 2
  THEN [q EXCEPT !.fetches = q.fetches + 1]
  ELSE [q EXCEPT !.pc = "answered", !.threw = TRUE]
onGetDocsRejected(q) == [q EXCEPT !.pc = "answered", !.threw = TRUE]

\* init-navigation.js:278-328  what getSiteByDomain hands to its caller once
\* the query has been answered: the site found, or null for an empty snapshot
\* and, through the catch block, for a rejected query; nothing is thrown
getSiteByDomainReturnRethrows(q) ==
  IF q.threw
  THEN [raised |-> TRUE, site |-> NullSite]
  ELSE [raised |-> FALSE, site |-> q.found]
getSiteByDomainReturn(q) ==
  IF q.threw
  THEN [raised |-> FALSE, site |-> NullSite]
  ELSE [raised |-> FALSE, site |-> q.found]

\* ------------------------------------------------------------------------
\* Requests
\* ------------------------------------------------------------------------
NoChange == [op |-> "none", site |-> NullSite, at |-> -1]

IdleRequest ==
  [pc |-> "idle", domain |-> "", cached |-> NullSite, expired |-> FALSE,
   fetches |-> 0, threw |-> FALSE, raised |-> FALSE, found |-> NullSite,
   pathname |-> <<>>, bypass |-> FALSE, site |-> NullSite,
   response |-> NoResponse]

\* a request slot that has not been given a request
NoRequest == [host |-> "", mockDomain |-> "", path |-> <<>>, redirects |-> 0]

\* a handler that is not in a call
IdleCall ==
  [pc |-> "idle", op |-> "", id |-> "", own |-> "", tenantId |-> "",
   found |-> NullSite, result |-> "", seen |-> {}]

\* no client request is recorded, TenantContext._tenantId is null, the pages
\* collection is empty and no handler is in a call
NoHandlers ==
  /\ request = [r \in Requests |-> NoRequest]
  /\ tenantContext = "null"
  /\ pages = << >>
  /\ calls = [r \in Requests |-> IdleCall]

Init ==
  /\ siteCache = [d \in CacheKeys |-> NoEntry]
  /\ now = 0
  /\ sites = [id \in TenantIds |->
                [domainName |-> "tenant1.example.com", status |-> "active"]]
  /\ adminOps = 0
  /\ nodeEnv \in NodeEnvs
  /\ useMockData \in BOOLEAN
  /\ envMockDomain \in MockEnvs
  /\ req = [r \in Requests |-> IdleRequest]
  /\ history = [d \in CacheKeys |-> NoChange]
  /\ NoHandlers

\* the change a getCachedSite call at time t makes to the entry of domainName:
\* an entry older than the expiration time is dropped
historyAfterGet(h, cache, domainName, t) ==
  IF cache[domainName] # NoEntry
     /\ t - cache[domainName].timestamp > CACHE_EXPIRATION_MS
  THEN [h EXCEPT ![domainName] = NoChange]
  ELSE h

historyAfterPut(h, domainName, site, t) ==
  [h EXCEPT ![domainName] = [op |-> "put", site |-> site, at |-> t]]

historyAfterClear(h, cache, domainName) ==
  IF cache[domainName] # NoEntry
  THEN [h EXCEPT ![domainName] = [op |-> "invalidate", site |-> NullSite, at |-> -1]]
  ELSE h

\* middleware.ts:32-72 for a request: request.nextUrl.pathname is read at
\* line 47 only, so the request's path (and whether it carries a bypass
\* credential, which the code never reads) is drawn where the response is made
Respond(r, started, site, pathname, bypass) ==
  [started EXCEPT !.pc = "done", !.site = site,
                  !.pathname = pathname, !.bypass = bypass,
                  !.response = middlewareResponse(site, pathname, nodeEnv)]

\* middleware.ts:66-72  the catch block of the middleware: an exception out of
\* getSiteByDomain is answered with x-tenant-id "error" and the request passes
RespondError(r, started, pathname, bypass) ==
  [started EXCEPT !.pc = "done", !.raised = TRUE,
                  !.pathname = pathname, !.bypass = bypass,
                  !.response = Continue("error", "", "")]

\* middleware.ts:7-30 up to the first suspension: the middleware reads the
\* cache, and on a miss calls getSiteByDomain, which reads the cache again and
\* then either answers from the mock data or sends the query to the store
Middleware(r, hostname, headerMockDomain, pathname, bypass) ==
  /\ req[r].pc = "idle"
  /\ matches(pathname)
  /\ LET domain == resolveDomain(headerMockDomain, envMockDomain, hostname)
         first == getCachedSite(siteCache, domain, now)
         second == getCachedSite(first.cache, domain, now)
         started == [IdleRequest EXCEPT
                       !.domain = domain,
                       !.cached = first.result,
                       !.expired = (siteCache[domain] # NoEntry
                                    /\ first.cache[domain] = NoEntry)]
         h1 == historyAfterGet(history, siteCache, domain, now)
     IN
     IF first.result # NullSite
     THEN \* middleware.ts:25-27 cache hit
          /\ siteCache' = first.cache
          /\ history' = h1
          /\ req' = [req EXCEPT ![r] =
                       Respond(r, started, first.result, pathname, bypass)]
     ELSE IF second.result # NullSite
     THEN \* init-navigation.js:280-284
          /\ siteCache' = second.cache
          /\ history' = h1
          /\ req' = [req EXCEPT ![r] =
                       Respond(r, started, second.result, pathname, bypass)]
     ELSE IF useMockData
     THEN \* init-navigation.js:289-300
          LET site == mockLookup(domain) IN
          /\ siteCache' = cacheFound(second.cache, domain, site, now)
          /\ history' = IF site # NullSite
                        THEN historyAfterPut(h1, domain, site, now)
                        ELSE h1
          /\ req' = [req EXCEPT ![r] =
                       Respond(r, started, site, pathname, bypass)]
     ELSE \* init-navigation.js:303-306 await getDocs(q)
          /\ siteCache' = second.cache
          /\ history' = h1
          /\ req' = [req EXCEPT ![r] =
                       [started EXCEPT !.pc = "querying", !.fetches = 1]]
  /\ UNCHANGED <<now, sites, adminOps, nodeEnv, useMockData, envMockDomain>>
  /\ UNCHANGED handlerVars

\* the store evaluates the query of init-navigation.js:305-306 and answers
\* with its first matching document, or with an empty snapshot
GetDocsResolves(r) ==
  /\ req[r].pc = "querying"
  /\ LET ids == matchingDocs(sites, req[r].domain) IN
     IF ids = {}
     THEN req' = [req EXCEPT ![r].pc = "answered", ![r].found = NullSite]
     ELSE \E id \in ids :
            req' = [req EXCEPT ![r].pc = "answered",
                               ![r].found = siteOfDoc(sites, id)]
  /\ UNCHANGED <<siteCache, now, sites, adminOps, nodeEnv, useMockData,
                 envMockDomain, history>>
  /\ UNCHANGED handlerVars

\* the store is unreachable: getDocs rejects
GetDocsRejects(r) ==
  /\ req[r].pc = "querying"
  /\ req' = [req EXCEPT ![r] = onGetDocsRejected(req[r])]
  /\ UNCHANGED <<siteCache, now, sites, adminOps, nodeEnv, useMockData,
                 envMockDomain, history>>
  /\ UNCHANGED handlerVars

\* init-navigation.js:308-328 and middleware.ts:32-72: getSiteByDomain resumes
\* with the answer (the catch block turns a rejection into null), caches a
\* found site, and the middleware decides
MiddlewareResume(r, pathname, bypass) ==
  /\ req[r].pc = "answered"
  /\ matches(pathname)
  /\ LET returned == getSiteByDomainReturn(req[r])
         site == returned.site
     IN
     /\ siteCache' = cacheFound(siteCache, req[r].domain, site, now)
     /\ history' = IF site # NullSite
                   THEN historyAfterPut(history, req[r].domain, site, now)
                   ELSE history
     /\ req' = [req EXCEPT ![r] =
                  IF returned.raised
                  THEN RespondError(r, req[r], pathname, bypass)
                  ELSE Respond(r, req[r], site, pathname, bypass)]
  /\ UNCHANGED <<now, sites, adminOps, nodeEnv, useMockData, envMockDomain>>
  /\ UNCHANGED handlerVars

\* middleware.ts:76-81  a request on a path the matcher excludes passes
\* without the middleware being run
Unmatched(r, pathname) ==
  /\ req[r].pc = "idle"
  /\ ~matches(pathname)
  /\ req' = [req EXCEPT ![r] =
               [IdleRequest EXCEPT !.pc = "done", !.pathname = pathname,
                                   !.response = Continue("", "", "")]]
  /\ UNCHANGED <<siteCache, now, sites, adminOps, nodeEnv, useMockData,
                 envMockDomain, history>>
  /\ UNCHANGED handlerVars

\* the response has been sent; the slot serves the next request
Finish(r) ==
  /\ req[r].pc = "done"
  /\ req' = [req EXCEPT ![r] = IdleRequest]
  /\ UNCHANGED <<siteCache, now, sites, adminOps, nodeEnv, useMockData,
                 envMockDomain, history>>
  /\ UNCHANGED handlerVars

\* siteCache.ts:56-58 called by an administrative hook
InvalidateDomain(domainName) ==
  /\ siteCache' = clearSiteCache(siteCache, domainName)
  /\ history' = historyAfterClear(history, siteCache, domainName)
  /\ UNCHANGED <<now, sites, adminOps, nodeEnv, useMockData,
                 envMockDomain, req>>
  /\ UNCHANGED handlerVars

\* siteCache.ts:63-65 called by an administrative hook
InvalidateAll ==
  /\ siteCache' = clearAllSiteCache(siteCache)
  /\ history' = [d \in DOMAIN history |->
                   historyAfterClear(history, siteCache, d)[d]]
  /\ UNCHANGED <<now, sites, adminOps, nodeEnv, useMockData,
                 envMockDomain, req>>
  /\ UNCHANGED handlerVars

\* time passes
Tick ==
  /\ now + TickStep <= MaxTicks * TickStep
  /\ now' = now + TickStep
  /\ UNCHANGED <<siteCache, sites, adminOps, nodeEnv, useMockData,
                 envMockDomain, req, history>>
  /\ UNCHANGED handlerVars

\* an administrator changes a site document directly in the store
AdminSetStatus(id, status) ==
  /\ adminOps < MaxAdminOps
  /\ sites[id] # NoDoc
  /\ sites[id].status # status
  /\ sites' = [sites EXCEPT ![id].status = status]
  /\ adminOps' = adminOps + 1
  /\ UNCHANGED <<siteCache, now, nodeEnv, useMockData, envMockDomain,
                 req, history>>
  /\ UNCHANGED handlerVars

AdminDelete(id) ==
  /\ adminOps < MaxAdminOps
  /\ sites[id] # NoDoc
  /\ sites' = [sites EXCEPT ![id] = NoDoc]
  /\ adminOps' = adminOps + 1
  /\ UNCHANGED <<siteCache, now, nodeEnv, useMockData, envMockDomain,
                 req, history>>
  /\ UNCHANGED handlerVars

\* the requests of Next carry no bypass credential; the code never reads one,
\* and NextGate has the requests that carry it
Next ==
  \/ \E r \in Requests, hostname \in Hosts, headerMockDomain \in MockHeaders,
        pathname \in Paths :
       Middleware(r, hostname, headerMockDomain, pathname, FALSE)
  \/ \E r \in Requests : GetDocsResolves(r)
  \/ \E r \in Requests : GetDocsRejects(r)
  \/ \E r \in Requests, pathname \in Paths :
       MiddlewareResume(r, pathname, FALSE)
  \/ \E r \in Requests, pathname \in Paths : Unmatched(r, pathname)
  \/ \E r \in Requests : Finish(r)
  \/ \E d \in CacheKeys : InvalidateDomain(d)
  \/ InvalidateAll
  \/ Tick
  \/ \E id \in TenantIds, status \in Statuses : AdminSetStatus(id, status)
  \/ \E id \in TenantIds : AdminDelete(id)

Spec == Init /\ [][Next]_vars

\* ------------------------------------------------------------------------
\* The lookup by domain name, with two sites in the store
\* ------------------------------------------------------------------------
\* host names of requests for the two sites: the domain name of each, the
\* domain name of tenant1 as a client may spell it, and a domain that the
\* document of tenant1 lists in alternativeDomains
DomainHosts ==
  {"tenant1.example.com", "Tenant1.Example.com", "alias.example.com",
   "tenant2.example.com"}

DomainTenantIds == {"tenant1", "tenant2"}

\* schema.ts:18  SiteDocument.alternativeDomains, "additional domains that
\* should resolve to this site"; no operation reads or writes the field
alternativeDomains ==
  [id \in DomainTenantIds |->
     IF id = "tenant1" THEN {"alias.example.com"} ELSE {}]

\* String.prototype.toLowerCase on the host names of DomainHosts
toLowerCase(domainName) ==
  IF domainName = "Tenant1.Example.com" THEN "tenant1.example.com"
  ELSE domainName

InitDomains ==
  /\ siteCache = [d \in DomainHosts |-> NoEntry]
  /\ now = 0
  /\ sites = [id \in DomainTenantIds |->
                [domainName |-> IF id = "tenant1" THEN "tenant1.example.com"
                                ELSE "tenant2.example.com",
                 status |-> "active"]]
  /\ adminOps = 0
  /\ nodeEnv \in NodeEnvs
  /\ useMockData = FALSE
  /\ envMockDomain = ""
  /\ req = [r \in Requests |-> IdleRequest]
  /\ history = [d \in DomainHosts |-> NoChange]
  /\ NoHandlers

NextDomains ==
  \/ \E r \in Requests, hostname \in DomainHosts :
       Middleware(r, hostname, "", <<"/">>, FALSE)
  \/ \E r \in Requests : GetDocsResolves(r)
  \/ \E r \in Requests : GetDocsRejects(r)
  \/ \E r \in Requests : MiddlewareResume(r, <<"/">>, FALSE)
  \/ \E r \in Requests : Finish(r)
  \/ \E d \in DomainHosts : InvalidateDomain(d)
  \/ InvalidateAll
  \/ Tick

SpecDomains == InitDomains /\ [][NextDomains]_vars

\* ------------------------------------------------------------------------
\* The status gate, with any status string in the stored document
\* ------------------------------------------------------------------------
\* init-navigation.js:314  siteDoc.data() as SiteConfig: the cast checks
\* nothing, so the status the middleware reads is whatever string the
\* document holds, one of SiteConfig.status or not
StoredStatuses == Statuses \cup {"draft", "preview", "archived"}

InitGate ==
  /\ siteCache = [d \in CacheKeys |-> NoEntry]
  /\ now = 0
  /\ sites \in [TenantIds ->
                  [domainName : {"tenant1.example.com"}, status : StoredStatuses]]
  /\ adminOps = 0
  /\ nodeEnv \in NodeEnvs
  /\ useMockData = FALSE
  /\ envMockDomain = ""
  /\ req = [r \in Requests |-> IdleRequest]
  /\ history = [d \in CacheKeys |-> NoChange]
  /\ NoHandlers

NextGate ==
  \/ \E r \in Requests, hostname \in Hosts, pathname \in Paths,
        bypass \in BOOLEAN :
       Middleware(r, hostname, "", pathname, bypass)
  \/ \E r \in Requests : GetDocsResolves(r)
  \/ \E r \in Requests : GetDocsRejects(r)
  \/ \E r \in Requests, pathname \in Paths, bypass \in BOOLEAN :
       MiddlewareResume(r, pathname, bypass)
  \/ \E r \in Requests, pathname \in Paths : Unmatched(r, pathname)
  \/ \E r \in Requests : Finish(r)
  \/ Tick

SpecGate == InitGate /\ [][NextGate]_vars

\* ------------------------------------------------------------------------
\* Requests against a store whose documents are updated by the repository
\* ------------------------------------------------------------------------
\* BaseRepository.ts:166-194  update(id, data): the document gets the new
\* data and updatedAt: new Date()
UpdateSite(id, status) ==
  /\ adminOps < MaxAdminOps
  /\ sites[id] # NoDoc
  /\ sites[id].status # status
  /\ sites' = [sites EXCEPT ![id].status = status, ![id].updatedAt = now]
  /\ adminOps' = adminOps + 1
  /\ UNCHANGED <<siteCache, now, nodeEnv, useMockData, envMockDomain,
                 req, history>>
  /\ UNCHANGED handlerVars

InitStale ==
  /\ siteCache = [d \in CacheKeys |-> NoEntry]
  /\ now = 0
  /\ sites = [id \in TenantIds |->
                [domainName |-> "tenant1.example.com", status |-> "active",
                 updatedAt |-> 0]]
  /\ adminOps = 0
  /\ nodeEnv \in NodeEnvs
  /\ useMockData = FALSE
  /\ envMockDomain = ""
  /\ req = [r \in Requests |-> IdleRequest]
  /\ history = [d \in CacheKeys |-> NoChange]
  /\ NoHandlers

NextStale ==
  \/ \E r \in Requests, hostname \in Hosts :
       Middleware(r, hostname, "", <<"/">>, FALSE)
  \/ \E r \in Requests : GetDocsResolves(r)
  \/ \E r \in Requests : GetDocsRejects(r)
  \/ \E r \in Requests : MiddlewareResume(r, <<"/">>, FALSE)
  \/ \E r \in Requests : Finish(r)
  \/ \E d \in CacheKeys : InvalidateDomain(d)
  \/ Tick
  \/ \E id \in TenantIds, status \in Statuses : UpdateSite(id, status)

SpecStale == InitStale /\ [][NextStale]_vars

\* the event loop runs the continuation of a request whose query has been
\* answered, and the response that has been made is sent; nothing makes the
\* store answer a query
SpecLive ==
  /\ InitStale
  /\ [][NextStale]_vars
  /\ \A r \in Requests :
       /\ WF_vars(MiddlewareResume(r, <<"/">>, FALSE))
       /\ WF_vars(Finish(r))

\* ------------------------------------------------------------------------
\* Clients: requests with their headers, and the redirects they follow
\* ------------------------------------------------------------------------
\* redirects a client follows for one request before it gives up
MaxRedirects == 3

\* values of the x-mock-domain header of a request ("" when absent)
ClientMockHeaders == {"", "tenant1.example.com"}

\* paths a client asks for
ClientPaths == {<<"/">>, MaintenancePath}

\* a client sends a request: middleware.ts:9 reads its Host header, :13 its
\* x-mock-domain header and :47 its path
Receive(r, hostname, headerMockDomain, pathname) ==
  /\ req[r].pc = "idle"
  /\ request[r] = NoRequest
  /\ request' = [request EXCEPT ![r] =
                   [host |-> hostname, mockDomain |-> headerMockDomain,
                    path |-> pathname, redirects |-> 0]]
  /\ UNCHANGED <<siteCache, now, sites, adminOps, nodeEnv, useMockData,
                 envMockDomain, req, history, tenantContext, pages, calls>>

\* middleware.ts:48,53,62  NextResponse.redirect(new URL(path, request.url)):
\* the client repeats the request, headers unchanged, on the path of the
\* Location it was given
FollowRedirect(r) ==
  /\ req[r].pc = "done"
  /\ req[r].response.kind = "redirect"
  /\ request[r].redirects < MaxRedirects
  /\ request' = [request EXCEPT ![r].path = req[r].response.location,
                                ![r].redirects = @ + 1]
  /\ req' = [req EXCEPT ![r] = IdleRequest]
  /\ UNCHANGED <<siteCache, now, sites, adminOps, nodeEnv, useMockData,
                 envMockDomain, history, tenantContext, pages, calls>>

\* the client has its final response
Close(r) ==
  /\ req[r].pc = "done"
  /\ req[r].response.kind = "next"
  /\ request' = [request EXCEPT ![r] = NoRequest]
  /\ req' = [req EXCEPT ![r] = IdleRequest]
  /\ UNCHANGED <<siteCache, now, sites, adminOps, nodeEnv, useMockData,
                 envMockDomain, history, tenantContext, pages, calls>>

InitClient ==
  /\ siteCache = [d \in CacheKeys |-> NoEntry]
  /\ now = 0
  /\ sites \in [TenantIds ->
                  [domainName : {"tenant1.example.com"}, status : Statuses]]
  /\ adminOps = 0
  /\ nodeEnv \in NodeEnvs
  /\ useMockData = FALSE
  /\ envMockDomain = ""
  /\ req = [r \in Requests |-> IdleRequest]
  /\ history = [d \in CacheKeys |-> NoChange]
  /\ NoHandlers

NextClient ==
  \/ \E r \in Requests, hostname \in Hosts,
        headerMockDomain \in ClientMockHeaders, pathname \in ClientPaths :
       Receive(r, hostname, headerMockDomain, pathname)
  \/ \E r \in Requests :
       /\ request[r] # NoRequest
       /\ Middleware(r, request[r].host, request[r].mockDomain,
                     request[r].path, FALSE)
  \/ \E r \in Requests : GetDocsResolves(r)
  \/ \E r \in Requests : GetDocsRejects(r)
  \/ \E r \in Requests : MiddlewareResume(r, request[r].path, FALSE)
  \/ \E r \in Requests :
       /\ request[r] # NoRequest
       /\ Unmatched(r, request[r].path)
  \/ \E r \in Requests : FollowRedirect(r)
  \/ \E r \in Requests : Close(r)
  \/ \E id \in TenantIds, status \in Statuses : AdminSetStatus(id, status)

SpecClient == InitClient /\ [][NextClient]_vars

\* ------------------------------------------------------------------------
\* Repositories (src/lib/repository): TenantContext, BaseRepository on pages
\* ------------------------------------------------------------------------
\* host names of the two sites of the store
RepositoryHosts == {"tenant1.example.com", "tenant2.example.com"}

\* documents of the pages collection: a page of tenant1
PageIds == {"p1"}

\* a page document that does not exist
NoPage == [tenantId |-> "null", title |-> "null"]

\* the operations on one document, BaseRepository.ts:134-217
DocumentOps == {"getById", "update", "delete"}

\* TenantContext.ts:34-43  getTenantId() where typeof window === 'undefined':
\* the tenant id, or Error('Tenant ID not set in server context')
getTenantId(context) ==
  IF context = "null"
  THEN [threw |-> TRUE, tenantId |-> "null"]
  ELSE [threw |-> FALSE, tenantId |-> context]

\* BaseRepository.ts:71-77  what validateTenantAccess answers for the
\* snapshot of document docId
hasAccessAnyTenant(collection, docId, tenantId) == collection[docId] # NoPage
hasAccess(collection, docId, tenantId) ==
  /\ collection[docId] # NoPage
  /\ collection[docId].tenantId = tenantId

\* BaseRepository.ts:140,172,206  what an operation returns when access is
\* denied
Denied(op) == IF op = "getById" THEN "null" ELSE "false"

\* BaseRepository.ts:55  where('tenantId', '==', tenantId)
tenantDocs(collection, tenantId) ==
  {id \in DOMAIN collection :
     collection[id] # NoPage /\ collection[id].tenantId = tenantId}

\* the middleware has resolved the site of request r and let it pass: the
\* handler of the request runs
Handling(r) ==
  /\ req[r].pc = "done"
  /\ req[r].site # NullSite
  /\ req[r].response.kind = "next"

\* TenantContext.ts:26-28  setTenantId, called by a provider (part_015:87)
SetTenantId(tenantId) ==
  /\ tenantContext # tenantId
  /\ tenantContext' = tenantId
  /\ UNCHANGED <<siteCache, now, sites, adminOps, nodeEnv, useMockData,
                 envMockDomain, req, history, request, pages, calls>>

\* TenantContext.ts:69-71  clearTenantId
ClearTenantId ==
  /\ tenantContext # "null"
  /\ tenantContext' = "null"
  /\ UNCHANGED <<siteCache, now, sites, adminOps, nodeEnv, useMockData,
                 envMockDomain, req, history, request, pages, calls>>

\* the handler of request r reads the tenant id of the context
GetTenantId(r) ==
  /\ Handling(r)
  /\ calls[r].pc = "idle"
  /\ LET got == getTenantId(tenantContext) IN
     calls' = [calls EXCEPT ![r] =
                 [IdleCall EXCEPT
                    !.pc = "returned", !.op = "getTenantId",
                    !.own = req[r].site.tenantId,
                    !.tenantId = got.tenantId,
                    !.result = IF got.threw THEN "throws" ELSE got.tenantId]]
  /\ UNCHANGED <<siteCache, now, sites, adminOps, nodeEnv, useMockData,
                 envMockDomain, req, history, request, tenantContext, pages>>

\* BaseRepository.ts:134-138,166-170,201-205 and 65-69: getById, update or
\* delete of document id, up to await getDoc(docRef) in validateTenantAccess;
\* when getTenantId throws, the catch block of validateTenantAccess answers
\* false and the operation returns null/false
CallDocument(r, op, id) ==
  /\ Handling(r)
  /\ calls[r].pc = "idle"
  /\ LET got == getTenantId(tenantContext)
         call == [IdleCall EXCEPT !.op = op, !.id = id,
                                  !.own = req[r].site.tenantId,
                                  !.tenantId = got.tenantId]
     IN
     calls' = [calls EXCEPT ![r] =
                 IF got.threw
                 THEN [call EXCEPT !.pc = "returned", !.result = Denied(op)]
                 ELSE [call EXCEPT !.pc = "validating"]]
  /\ UNCHANGED <<siteCache, now, sites, adminOps, nodeEnv, useMockData,
                 envMockDomain, req, history, request, tenantContext, pages>>

\* BaseRepository.ts:69-77 and 138-143,170-188,205-211: getDoc answers, the
\* snapshot is checked against the tenant id read before the await, and the
\* operation returns null/false or goes on to its own await
ValidateAnswers(r) ==
  /\ calls[r].pc = "validating"
  /\ calls' = [calls EXCEPT ![r] =
                 IF hasAccess(pages, calls[r].id, calls[r].tenantId)
                 THEN [calls[r] EXCEPT !.pc = "operating"]
                 ELSE [calls[r] EXCEPT !.pc = "returned",
                                       !.result = Denied(calls[r].op)]]
  /\ UNCHANGED <<siteCache, now, sites, adminOps, nodeEnv, useMockData,
                 envMockDomain, req, history, request, tenantContext, pages>>

\* BaseRepository.ts:78-81  getDoc rejects: validateTenantAccess answers false
ValidateRejects(r) ==
  /\ calls[r].pc = "validating"
  /\ calls' = [calls EXCEPT ![r].pc = "returned",
                            ![r].result = Denied(calls[r].op)]
  /\ UNCHANGED <<siteCache, now, sites, adminOps, nodeEnv, useMockData,
                 envMockDomain, req, history, request, tenantContext, pages>>

\* BaseRepository.ts:144-153, 188-189, 211-212: the store answers the getDoc,
\* updateDoc or deleteDoc of the operation; updateDoc of a document that no
\* longer exists rejects and update throws (190-193)
StoreAnswers(r) ==
  /\ calls[r].pc = "operating"
  /\ LET id == calls[r].id
         exists == pages[id] # NoPage
     IN
     CASE calls[r].op = "getById" ->
            /\ calls' = [calls EXCEPT
                           ![r].pc = "returned",
                           ![r].result = IF exists THEN "document" ELSE "null",
                           ![r].seen = IF exists THEN {pages[id].tenantId}
                                       ELSE {}]
            /\ pages' = pages
       [] calls[r].op = "update" ->
            /\ calls' = [calls EXCEPT
                           ![r].pc = "returned",
                           ![r].result = IF exists THEN "true" ELSE "throws"]
            /\ pages' = IF exists THEN [pages EXCEPT ![id].title = "new"]
                        ELSE pages
       [] calls[r].op = "delete" ->
            /\ calls' = [calls EXCEPT ![r].pc = "returned",
                                      ![r].result = "true"]
            /\ pages' = [pages EXCEPT ![id] = NoPage]
  /\ UNCHANGED <<siteCache, now, sites, adminOps, nodeEnv, useMockData,
                 envMockDomain, req, history, request, tenantContext>>

\* BaseRepository.ts:114-117 and 48-58: getAll up to await getDocs(q); the
\* query holds the tenant id read from the context; when getTenantId throws,
\* getAll throws (123-126)
CallGetAll(r) ==
  /\ Handling(r)
  /\ calls[r].pc = "idle"
  /\ LET got == getTenantId(tenantContext)
         call == [IdleCall EXCEPT !.op = "getAll",
                                  !.own = req[r].site.tenantId,
                                  !.tenantId = got.tenantId]
     IN
     calls' = [calls EXCEPT ![r] =
                 IF got.threw
                 THEN [call EXCEPT !.pc = "returned", !.result = "throws"]
                 ELSE [call EXCEPT !.pc = "listing"]]
  /\ UNCHANGED <<siteCache, now, sites, adminOps, nodeEnv, useMockData,
                 envMockDomain, req, history, request, tenantContext, pages>>

\* BaseRepository.ts:117-122  the store answers the query with the documents
\* of the tenant id the query holds
GetAllAnswers(r) ==
  /\ calls[r].pc = "listing"
  /\ calls' = [calls EXCEPT
                 ![r].pc = "returned",
                 ![r].result = "list",
                 ![r].seen = {pages[id].tenantId :
                                id \in tenantDocs(pages, calls[r].tenantId)}]
  /\ UNCHANGED <<siteCache, now, sites, adminOps, nodeEnv, useMockData,
                 envMockDomain, req, history, request, tenantContext, pages>>

\* the handler has the result of its call
CallReturns(r) ==
  /\ calls[r].pc = "returned"
  /\ calls' = [calls EXCEPT ![r] = IdleCall]
  /\ UNCHANGED <<siteCache, now, sites, adminOps, nodeEnv, useMockData,
                 envMockDomain, req, history, request, tenantContext, pages>>

InitRepository ==
  /\ siteCache = [d \in RepositoryHosts |-> NoEntry]
  /\ now = 0
  /\ sites = [id \in DomainTenantIds |->
                [domainName |-> IF id = "tenant1" THEN "tenant1.example.com"
                                ELSE "tenant2.example.com",
                 status |-> "active"]]
  /\ adminOps = 0
  /\ nodeEnv = "production"
  /\ useMockData = FALSE
  /\ envMockDomain = ""
  /\ req = [r \in Requests |-> IdleRequest]
  /\ history = [d \in RepositoryHosts |-> NoChange]
  /\ request = [r \in Requests |-> NoRequest]
  /\ tenantContext = "null"
  /\ pages = [id \in PageIds |-> [tenantId |-> "tenant1", title |-> "old"]]
  /\ calls = [r \in Requests |-> IdleCall]

NextRepository ==
  \/ \E r \in Requests, hostname \in RepositoryHosts :
       Middleware(r, hostname, "", <<"/">>, FALSE)
  \/ \E r \in Requests : GetDocsResolves(r)
  \/ \E r \in Requests : MiddlewareResume(r, <<"/">>, FALSE)
  \/ \E r \in Requests : calls[r].pc = "idle" /\ Finish(r)
  \/ \E tenantId \in DomainTenantIds : SetTenantId(tenantId)
  \/ ClearTenantId
  \/ \E r \in Requests : GetTenantId(r)
  \/ \E r \in Requests, op \in DocumentOps, id \in PageIds :
       CallDocument(r, op, id)
  \/ \E r \in Requests : ValidateAnswers(r)
  \/ \E r \in Requests : ValidateRejects(r)
  \/ \E r \in Requests : StoreAnswers(r)
  \/ \E r \in Requests : CallGetAll(r)
  \/ \E r \in Requests : GetAllAnswers(r)
  \/ \E r \in Requests : CallReturns(r)

SpecRepository == InitRepository /\ [][NextRepository]_vars

\* ------------------------------------------------------------------------
\* The lookup by tenant id (siteService, init-navigation.js:336-371)
\* ------------------------------------------------------------------------
\* tenant ids looked up: two that have a document, one that has none
LookupTenantIds == DomainTenantIds \cup {"tenant3"}

\* init-navigation.js:342  Object.values(mockSites).find(site =>
\* site.tenantId === tenantId) || null
mockFind(tenantId) ==
  LET found == {d \in DOMAIN mockSites : mockSites[d].tenantId = tenantId} IN
  IF found = {} THEN NullSite ELSE mockSites[CHOOSE d \in found : TRUE]

\* init-navigation.js:361-364  if (site.domainName) cacheSite(site.domainName,
\* site)
cacheByDomainNameNever(cache, site, t) == cache
cacheByDomainName(cache, site, t) ==
  IF site.domainName # ""
  THEN cacheSite(cache, site.domainName, site, t)
  ELSE cache

\* init-navigation.js:336-348  getSiteByTenantId up to await getDoc; in
\* mock-data mode it answers from mockSites and returns
GetSiteByTenantId(r, tenantId) ==
  /\ calls[r].pc = "idle"
  /\ LET call == [IdleCall EXCEPT !.op = "getSiteByTenantId", !.id = tenantId]
     IN
     calls' = [calls EXCEPT ![r] =
                 IF useMockData
                 THEN [call EXCEPT
                         !.pc = "returned",
                         !.found = mockFind(tenantId),
                         !.result = IF mockFind(tenantId) = NullSite
                                    THEN "null" ELSE "site"]
                 ELSE [call EXCEPT !.pc = "fetching"]]
  /\ UNCHANGED <<siteCache, now, sites, adminOps, nodeEnv, useMockData,
                 envMockDomain, req, history, request, tenantContext, pages>>

\* the store answers getDoc(doc(db, 'sites', tenantId)) with the snapshot of
\* the document; init-navigation.js:355-359 {...siteData, tenantId: snap.id}
GetDocResolves(r) ==
  /\ calls[r].pc = "fetching"
  /\ calls' = [calls EXCEPT
                 ![r].pc = "fetched",
                 ![r].found = IF calls[r].id \in DOMAIN sites
                                 /\ sites[calls[r].id] # NoDoc
                              THEN siteOfDoc(sites, calls[r].id)
                              ELSE NullSite]
  /\ UNCHANGED <<siteCache, now, sites, adminOps, nodeEnv, useMockData,
                 envMockDomain, req, history, request, tenantContext, pages>>

\* getDoc rejects: init-navigation.js:367-370 answers null
GetDocRejects(r) ==
  /\ calls[r].pc = "fetching"
  /\ calls' = [calls EXCEPT ![r].pc = "returned", ![r].result = "null"]
  /\ UNCHANGED <<siteCache, now, sites, adminOps, nodeEnv, useMockData,
                 envMockDomain, req, history, request, tenantContext, pages>>

\* init-navigation.js:350-366  getSiteByTenantId resumes with the snapshot
GetSiteByTenantIdResume(r) ==
  /\ calls[r].pc = "fetched"
  /\ LET site == calls[r].found IN
     IF site = NullSite
     THEN /\ calls' = [calls EXCEPT ![r].pc = "returned", ![r].result = "null"]
          /\ UNCHANGED <<siteCache, history>>
     ELSE /\ calls' = [calls EXCEPT ![r].pc = "returned", ![r].result = "site"]
          /\ siteCache' = cacheByDomainName(siteCache, site, now)
          /\ history' = IF site.domainName # ""
                        THEN historyAfterPut(history, site.domainName, site, now)
                        ELSE history
  /\ UNCHANGED <<now, sites, adminOps, nodeEnv, useMockData,
                 envMockDomain, req, request, tenantContext, pages>>

InitLookup ==
  /\ siteCache = [d \in CacheKeys |-> NoEntry]
  /\ now = 0
  /\ sites = [id \in DomainTenantIds |->
                [domainName |-> IF id = "tenant1" THEN "tenant1.example.com"
                                ELSE "",
                 status |-> "active"]]
  /\ adminOps = 0
  /\ nodeEnv = "production"
  /\ useMockData \in BOOLEAN
  /\ envMockDomain = ""
  /\ req = [r \in Requests |-> IdleRequest]
  /\ history = [d \in CacheKeys |-> NoChange]
  /\ NoHandlers

NextLookup ==
  \/ \E r \in Requests, hostname \in Hosts :
       Middleware(r, hostname, "", <<"/">>, FALSE)
  \/ \E r \in Requests : GetDocsResolves(r)
  \/ \E r \in Requests : MiddlewareResume(r, <<"/">>, FALSE)
  \/ \E r \in Requests : Finish(r)
  \/ \E r \in Requests, tenantId \in LookupTenantIds :
       GetSiteByTenantId(r, tenantId)
  \/ \E r \in Requests : GetDocResolves(r)
  \/ \E r \in Requests : GetDocRejects(r)
  \/ \E r \in Requests : GetSiteByTenantIdResume(r)
  \/ \E r \in Requests : CallReturns(r)
  \/ \E d \in CacheKeys : InvalidateDomain(d)

SpecLookup == InitLookup /\ [][NextLookup]_vars

TypeOK ==
  /\ now \in Nat
  /\ now <= MaxTicks * TickStep
  /\ adminOps \in 0..MaxAdminOps
  /\ \A r \in Requests : req[r].pc \in {"idle", "querying", "answered", "done"}

\* ------------------------------------------------------------------------
\* Steps of a request
\* ------------------------------------------------------------------------
\* request r enters the middleware in this step: getCachedSite(domain) is
\* called on the cache and at the time of the state the step starts in
Arrives(r) ==
  /\ req[r].pc = "idle"
  /\ req'[r].pc # "idle"
  /\ req'[r].domain # ""

\* request r gets its response in this step
Returns(r) ==
  /\ req[r].pc # "done"
  /\ req'[r].pc = "done"
  /\ req'[r].domain # ""

\* an entry that getCachedSite has to serve at time t
Fresh(entry, t) ==
  entry # NoEntry /\ t - entry.timestamp <= CACHE_EXPIRATION_MS

\* ------------------------------------------------------------------------
\* Cache Store
\* ------------------------------------------------------------------------
\* C1: when the last change of the entry of a domain D was a put of record R
\* (no later put or invalidate of D) and no more than the expiration time has
\* passed since, a get of D returns exactly R.
C1_PutThenGet ==
  [][\A r \in Requests :
       Arrives(r) =>
         LET d == req'[r].domain IN
         (history[d].op = "put" /\ now - history[d].at <= CACHE_EXPIRATION_MS)
           => req'[r].cached = history[d].site]_vars

\* a request was served from the cache the record a query had put there, at
\* the very end of the expiration time
C1_Witness ==
  \E r \in Requests :
    /\ ~useMockData
    /\ req[r].pc = "done"
    /\ req[r].cached # NullSite
    /\ history[req[r].domain].op = "put"
    /\ req[r].cached = history[req[r].domain].site
    /\ now - history[req[r].domain].at = CACHE_EXPIRATION_MS

\* C2: get(key) returns the cached record exactly when an entry for key
\* exists and now - insertedAt <= ttl; an older entry is answered with absent
\* and removed, and an entry appears again only through a put.
C2_GetFreshness ==
  [][/\ \A r \in Requests :
          Arrives(r) =>
            LET d == req'[r].domain
                e == siteCache[d]
            IN /\ req'[r].cached = IF Fresh(e, now) THEN e.site ELSE NullSite
               /\ (e # NoEntry /\ ~Fresh(e, now))
                    => \/ siteCache'[d] = NoEntry
                       \/ /\ history'[d].op = "put"
                          /\ history'[d].at = now
                          /\ siteCache'[d].timestamp = now
     /\ \A d \in CacheKeys :
          (siteCache[d] = NoEntry /\ siteCache'[d] # NoEntry)
            => /\ history'[d].op = "put"
               /\ siteCache'[d] = [site |-> history'[d].site,
                                   timestamp |-> history'[d].at]]_vars

\* a request found an entry older than the expiration time, was answered
\* with absent and the entry is gone
C2_Witness ==
  \E r \in Requests :
    /\ req[r].pc = "querying"
    /\ req[r].expired
    /\ req[r].cached = NullSite
    /\ siteCache[req[r].domain] = NoEntry

\* C3: after put(D, R) and then invalidate(D), and until the next put of D,
\* D has no entry and a get of D returns absent, however little of the
\* expiration time has passed; and invalidating an entry makes the get of its
\* key return absent at once.
C3_InvalidateThenGet ==
  \A d \in CacheKeys :
    /\ history[d].op = "invalidate"
         => /\ siteCache[d] = NoEntry
            /\ getCachedSite(siteCache, d, now).result = NullSite
    /\ siteCache[d] # NoEntry
         => getCachedSite(clearSiteCache(siteCache, d), d, now).result = NullSite

\* the entry that a request put has been invalidated at the time it was put
C3_Witness ==
  \E r \in Requests :
    /\ req[r].pc = "done"
    /\ req[r].fetches = 1
    /\ req[r].site # NullSite
    /\ history[req[r].domain].op = "invalidate"
    /\ now = 0

\* ------------------------------------------------------------------------
\* Resolver
\* ------------------------------------------------------------------------
\* C4: a request that finds an entry within its expiration time is answered
\* with the cached record and sends no query to the store; so after a put of
\* a domain, with no invalidate since and within the expiration time, a
\* request for that domain sends no query.
C4_HitAvoidsQuery ==
  [][\A r \in Requests :
       Arrives(r) =>
         LET d == req'[r].domain
             e == siteCache[d]
         IN /\ Fresh(e, now)
                 => /\ req'[r].pc = "done"
                    /\ req'[r].fetches = 0
                    /\ req'[r].site = e.site
            /\ (history[d].op = "put"
                /\ now - history[d].at <= CACHE_EXPIRATION_MS)
                 => /\ req'[r].pc = "done"
                    /\ req'[r].fetches = 0]_vars

\* one request queried the store and cached the site, the other was then
\* answered from the cache without a query
C4_Witness ==
  \E r1, r2 \in Requests :
    /\ ~useMockData
    /\ req[r1].pc = "done" /\ req[r1].fetches = 1 /\ req[r1].site # NullSite
    /\ req[r2].pc = "done" /\ req[r2].fetches = 0
    /\ req[r2].domain = req[r1].domain
    /\ req[r2].cached = req[r1].site

\* the lookup of the request found no record under its domain: the query
\* answered with an empty snapshot, or the mock data has no such key
NoRecord(q) ==
  IF useMockData
  THEN q.domain \notin DOMAIN mockSites
  ELSE q.fetches = 1 /\ ~q.threw /\ q.found = NullSite

\* C5 as stated: a resolve of a domain without a record does not populate the
\* cache, and a request that finds no entry is not answered from the cache
\* but looks the domain up again.
C5_Original ==
  [][\A r \in Requests :
       /\ (Returns(r) /\ NoRecord(req'[r]))
            => LET d == req'[r].domain IN
               siteCache'[d] = NoEntry \/ siteCache'[d] = siteCache[d]
       /\ (Arrives(r) /\ siteCache[req'[r].domain] = NoEntry)
            => /\ req'[r].cached = NullSite
               /\ ~useMockData => req'[r].fetches = 1]_vars

\* C5 amended: with the mock data off, a resolve of a domain without a record
\* in the store leaves the cache as it is, and a request that finds no entry
\* for its domain queries the store (again).
C5_NoNegativeCaching ==
  [][~useMockData =>
       \A r \in Requests :
         /\ (Returns(r) /\ NoRecord(req'[r]))
              => siteCache' = siteCache
         /\ (Arrives(r) /\ siteCache[req'[r].domain] = NoEntry)
              => /\ req'[r].cached = NullSite
                 /\ req'[r].pc = "querying"
                 /\ req'[r].fetches = 1]_vars

\* a query found no record, nothing was cached, and the next request for the
\* domain is querying the store again
C5_Witness ==
  \E r1, r2 \in Requests :
    /\ ~useMockData
    /\ req[r1].pc = "done" /\ NoRecord(req[r1])
    /\ siteCache[req[r1].domain] = NoEntry
    /\ history[req[r1].domain].op = "none"
    /\ req[r2].pc = "querying"
    /\ req[r2].domain = req[r1].domain
    /\ sites["tenant1"] # NoDoc
    /\ adminOps = 0

\* the middleware ran for the request and has answered it
Answered(r) == req[r].pc = "done" /\ req[r].domain # ""

\* the responses given for a domain that has no record
NotConfiguredResponses ==
  {Redirect(SiteNotFoundPath), Continue("unknown", "", "")}

\* C6: when the query of the store throws for a domain without a cache
\* entry, the response is a transient-error outcome that differs from the
\* outcome given for a domain that has no record.
C6_TransientDistinct ==
  \A r \in Requests :
    (Answered(r) /\ req[r].threw)
      => req[r].response \notin NotConfiguredResponses

\* ------------------------------------------------------------------------
\* Tenant Status Gate
\* ------------------------------------------------------------------------
\* C7 as stated: when no record resolves for the requested domain (the
\* resolver answers null and the store did not fail) the request is rejected
\* as not configured, in every environment.
C7_Original ==
  \A r \in Requests :
    (Answered(r) /\ req[r].site = NullSite /\ ~req[r].threw)
      => req[r].response = Redirect(SiteNotFoundPath)

\* C7 amended: when getSiteByDomain answers null for the requested domain, as
\* it does for a domain without a record in the store, the request is
\* redirected to /site-not-found only if NODE_ENV is production; in every
\* other environment it passes with x-tenant-id "unknown".
C7_EnvDependent ==
  \A r \in Requests :
    /\ (Answered(r) /\ req[r].site = NullSite)
         => req[r].response =
              IF nodeEnv = "production"
              THEN Redirect(SiteNotFoundPath)
              ELSE Continue("unknown", "", "")
    /\ (Answered(r) /\ ~useMockData /\ NoRecord(req[r]))
         => req[r].site = NullSite

\* outside production, a request for a domain without a record in the store
\* has passed with x-tenant-id "unknown"
C7_Witness ==
  \E r \in Requests :
    /\ ~useMockData
    /\ nodeEnv # "production"
    /\ Answered(r) /\ NoRecord(req[r])
    /\ req[r].response = Continue("unknown", "", "")

\* C8: for a resolved record with status active the request proceeds (no
\* redirect) and the tenant id attached to the response, as header and cookie,
\* is the record's tenantId.
C8_ActiveProceeds ==
  \A r \in Requests :
    (Answered(r) /\ req[r].site # NullSite /\ req[r].site.status = "active")
      => /\ req[r].response.kind = "next"
         /\ req[r].response.tenantHeader = req[r].site.tenantId
         /\ req[r].response.tenantCookie = req[r].site.tenantId
         /\ req[r].response.statusHeader = "active"

\* a request for the active site of the store has passed as tenant1
C8_Witness ==
  \E r \in Requests :
    /\ ~useMockData
    /\ Answered(r) /\ req[r].fetches = 1
    /\ req[r].site.status = "active"
    /\ req[r].response = Continue("tenant1", "active", "tenant1")

\* C9 as stated: for status maintenance the request is redirected to the
\* maintenance page, unless it targets the maintenance path or carries a
\* bypass credential, and then it proceeds with the maintenance flag attached.
C9_Original ==
  \A r \in Requests :
    (Answered(r) /\ req[r].site.status = "maintenance")
      => req[r].response =
           IF startsWith(req[r].pathname, MaintenancePath) \/ req[r].bypass
           THEN Continue(req[r].site.tenantId, "maintenance", req[r].site.tenantId)
           ELSE Redirect(MaintenancePath)

\* C9 amended: for status maintenance every request the middleware handles is
\* redirected to /maintenance, with or without a bypass credential; called
\* with a path that begins with /maintenance the middleware lets the request
\* proceed with x-site-status maintenance, but the matcher keeps such paths
\* from the middleware, so that they pass with no header attached.
C9_MaintenanceRedirects ==
  \A r \in Requests :
    /\ (Answered(r) /\ req[r].site.status = "maintenance")
         => /\ req[r].response = Redirect(MaintenancePath)
            /\ middlewareResponse(req[r].site, MaintenancePath, nodeEnv)
                 = Continue(req[r].site.tenantId, "maintenance",
                            req[r].site.tenantId)
    /\ (req[r].pc = "done" /\ startsWith(req[r].pathname, MaintenancePath))
         => /\ ~Answered(r)
            /\ req[r].response = Continue("", "", "")

\* a request with a bypass credential for a site in maintenance has been
\* redirected to /maintenance
C9_Witness ==
  \E r \in Requests :
    /\ Answered(r)
    /\ req[r].site.status = "maintenance"
    /\ req[r].bypass
    /\ req[r].response = Redirect(MaintenancePath)

\* C10: for a resolved record with status inactive every request, whatever
\* its path and credentials, is redirected to /site-inactive, which is not a
\* response given for a domain that has no record.
C10_InactiveRejected ==
  \A r \in Requests :
    (Answered(r) /\ req[r].site.status = "inactive")
      => /\ req[r].response = Redirect(SiteInactivePath)
         /\ req[r].response \notin NotConfiguredResponses
         /\ \A p \in Paths :
              middlewareResponse(req[r].site, p, nodeEnv)
                = Redirect(SiteInactivePath)

\* a request with a bypass credential for an inactive site has been
\* redirected to /site-inactive
C10_Witness ==
  \E r \in Requests :
    /\ Answered(r)
    /\ req[r].site.status = "inactive"
    /\ req[r].bypass
    /\ req[r].response = Redirect(SiteInactivePath)

\* C11 as stated: for a record with status draft or preview the request
\* proceeds only if it carries a bypass credential, and is otherwise rejected
\* like a request for an inactive site.
C11_Original ==
  \A r \in Requests :
    (Answered(r) /\ req[r].site.status \in {"draft", "preview"})
      => req[r].response =
           IF req[r].bypass
           THEN Continue(req[r].site.tenantId, req[r].site.status,
                         req[r].site.tenantId)
           ELSE Redirect(SiteInactivePath)

\* C11 amended: the middleware knows no draft or preview status and reads no
\* credential: for a record whose stored status is draft or preview every
\* request it handles proceeds, with the record's tenantId attached and
\* x-site-status set to the stored status.
C11_DraftProceeds ==
  \A r \in Requests :
    (Answered(r) /\ req[r].site.status \in {"draft", "preview"})
      => req[r].response =
           Continue(req[r].site.tenantId, req[r].site.status,
                    req[r].site.tenantId)

\* a request without a bypass credential for a site stored as draft has
\* proceeded as tenant1
C11_Witness ==
  \E r \in Requests :
    /\ Answered(r)
    /\ req[r].site.status = "draft"
    /\ ~req[r].bypass
    /\ req[r].response = Continue("tenant1", "draft", "tenant1")

\* C12 as stated: for a record with status archived the response is the one
\* given for a domain without a record, and the request never proceeds with
\* the tenant id of the archived site.
C12_Original ==
  \A r \in Requests :
    (Answered(r) /\ req[r].site.status = "archived")
      => /\ req[r].response =
              middlewareResponse(NullSite, req[r].pathname, nodeEnv)
         /\ req[r].response.tenantHeader # req[r].site.tenantId

\* C12 amended: the middleware knows no archived status: for a record whose
\* stored status is archived every request it handles proceeds with the
\* record's tenantId attached and x-site-status archived, which is not a
\* response given for a domain without a record.
C12_ArchivedProceeds ==
  \A r \in Requests :
    (Answered(r) /\ req[r].site.status = "archived")
      => /\ req[r].response =
              Continue(req[r].site.tenantId, "archived", req[r].site.tenantId)
         /\ req[r].response \notin NotConfiguredResponses

\* a request for a site stored as archived was answered from the cache and
\* has proceeded as tenant1
C12_Witness ==
  \E r \in Requests :
    /\ Answered(r)
    /\ req[r].cached # NullSite
    /\ req[r].site.status = "archived"
    /\ req[r].response.tenantHeader = "tenant1"

C14_BoundedStaleness ==
  [][\A r \in Requests :
       (Arrives(r) /\ req'[r].cached # NullSite)
         => \A id \in matchingDocs(sites, req'[r].domain) :
              siteOfDoc(sites, id) # req'[r].cached
                => now - sites[id].updatedAt <= CACHE_EXPIRATION_MS]_vars

\* ------------------------------------------------------------------------
\* Termination
\* ------------------------------------------------------------------------
\* C20: no request waits for the store for ever: a request whose query is
\* with the store eventually gets its response, also when the store does not
\* answer.
C20_EventuallyReturns ==
  \A r \in Requests : (req[r].pc = "querying") ~> (req[r].pc = "done")

\* ------------------------------------------------------------------------
\* Capacity
\* ------------------------------------------------------------------------
\* C15 as stated: the number of entries never exceeds the capacity.
C15_Original == Cardinality(Entries(siteCache)) <= Capacity

\* C15 amended: the cache has no capacity and a put evicts nothing: an entry
\* that was put stays as it was put until it is invalidated, replaced by a
\* put of its own key or found expired by a get of its own key, so that the
\* cache grows to one entry for every domain requested.
C15_NoEviction ==
  \A d \in DOMAIN siteCache :
    history[d].op = "put"
      => siteCache[d] = [site |-> history[d].site, timestamp |-> history[d].at]

\* the sites of both tenants were put, the second put evicted nothing, and
\* the cache holds more entries than the capacity
C15_Witness ==
  /\ ~useMockData
  /\ Entries(siteCache) = {"tenant1.example.com", "tenant2.example.com"}
  /\ Cardinality(Entries(siteCache)) > Capacity
  /\ \A d \in Entries(siteCache) : history[d].op = "put"
  /\ siteCache["tenant1.example.com"].timestamp
       < siteCache["tenant2.example.com"].timestamp

\* ------------------------------------------------------------------------
\* Store queries of a request
\* ------------------------------------------------------------------------
\* C16: a request sends at most one query to the store (a rejected query is
\* not sent again), and a request that finds the entry of its domain expired
\* is not answered from the cache and looks the domain up once: it sends
\* exactly one query, or with the mock data on reads the mock data instead.
C16_AtMostOneQuery ==
  \A r \in Requests :
    /\ req[r].fetches <= 1
    /\ req[r].expired
         => /\ req[r].cached = NullSite
            /\ IF useMockData
               THEN /\ req[r].fetches = 0
                    /\ req[r].pc = "done"
                    /\ req[r].site = mockLookup(req[r].domain)
               ELSE req[r].fetches = 1

\* a request found the entry of its domain expired, sent one query, which
\* the store rejected, and was answered without a second query
C16_Witness ==
  \E r \in Requests :
    /\ ~useMockData
    /\ req[r].expired
    /\ Answered(r) /\ req[r].threw
    /\ req[r].fetches = 1

\* ------------------------------------------------------------------------
\* clearAllSiteCache
\* ------------------------------------------------------------------------
\* C17: clearAllSiteCache removes every entry, so that afterwards no domain
\* has an entry and a get of any domain returns absent; on an empty cache,
\* and so when called twice in a row, it changes nothing.
C17_InvalidateAllEmpties ==
  [][InvalidateAll =>
       /\ Entries(siteCache') = {}
       /\ \A d \in CacheKeys : getCachedSite(siteCache', d, now).result = NullSite
       /\ Entries(siteCache) = {} => siteCache' = siteCache
       /\ clearAllSiteCache(siteCache') = siteCache']_vars

\* every domain had an entry and all of them have been removed
C17_Witness ==
  /\ Entries(siteCache) = {}
  /\ \A d \in CacheKeys : history[d].op = "invalidate"

\* ------------------------------------------------------------------------
\* Domain lookup
\* ------------------------------------------------------------------------
\* the answer of the store to the query of a request has been used
Looked(r) == Answered(r) /\ req[r].fetches = 1 /\ ~req[r].threw

\* C18: the lookup is case-insensitive: the domain is lower-cased before it
\* is used as cache key and in the query, so that a request is answered with
\* the record stored under the lower-cased host name, and every key of the
\* cache is lower-case.
C18_CaseInsensitive ==
  /\ \A r \in Requests :
       Looked(r) =>
         LET ids == matchingDocs(sites, toLowerCase(req[r].domain)) IN
         ids # {} => (req[r].site # NullSite /\ req[r].site.tenantId \in ids)
  /\ \A d \in Entries(siteCache) : d = toLowerCase(d)

\* the documents that name the domain, as domainName or in alternativeDomains
owners(collection, domainName) ==
  {id \in DOMAIN collection :
     /\ collection[id] # NoDoc
     /\ \/ collection[id].domainName = domainName
        \/ domainName \in alternativeDomains[id]}

\* C19: the query by domain returns a record exactly when some stored record
\* has the domain as domainName or among its alternative domains, and a
\* domain that is only an alternative domain of tenant T resolves to T.
C19_AlternateResolves ==
  \A r \in Requests :
    Looked(r) =>
      /\ req[r].found # NullSite <=> owners(sites, req[r].domain) # {}
      /\ req[r].found # NullSite
           => req[r].found.tenantId \in owners(sites, req[r].domain)

\* ------------------------------------------------------------------------
\* The Host header
\* ------------------------------------------------------------------------
\* request r is in the middleware, or has its response from it
Resolving(r) == req[r].pc # "idle" /\ req[r].domain # ""

\* C21: two requests that carry the same Host header value resolve the same
\* domain, and so the same tenant, whatever their other request headers are.
C21_HostDecides ==
  \A r1, r2 \in Requests :
    /\ Resolving(r1)
    /\ Resolving(r2)
    /\ request[r1].host = request[r2].host
    => /\ req[r1].domain = req[r2].domain
       /\ req[r1].pc = "done" /\ req[r2].pc = "done"
          /\ req[r1].site # NullSite /\ req[r2].site # NullSite
          => req[r1].site.tenantId = req[r2].site.tenantId

\* ------------------------------------------------------------------------
\* Tenant isolation in the repositories
\* ------------------------------------------------------------------------
\* the operations that read the tenant id to filter or to validate
RepositoryOps == DocumentOps \cup {"getAll"}

\* C22: getById, update and delete validate tenant ownership first: on a
\* document that does not exist or whose tenantId differs from the tenant id
\* the operation read from the context they return null/false and leave the
\* stored document unchanged; a stored document changes only through an
\* update or delete made under the tenant id of the document.
C22_OwnershipValidated ==
  [][ /\ \A r \in Requests :
           /\ calls[r].pc = "validating"
           /\ calls'[r].pc # "validating"
           /\ \/ pages[calls[r].id] = NoPage
              \/ pages[calls[r].id].tenantId # calls[r].tenantId
           => /\ calls'[r].pc = "returned"
              /\ calls'[r].result = Denied(calls[r].op)
              /\ pages' = pages
      /\ \A id \in PageIds :
           pages'[id] # pages[id]
           => \E r \in Requests :
                /\ calls[r].pc = "operating"
                /\ calls[r].op \in {"update", "delete"}
                /\ calls[r].id = id
                /\ calls[r].tenantId = pages[id].tenantId
                /\ calls'[r].result = "true"
    ]_vars

\* an update of the page of tenant1 made while the context holds tenant2 has
\* returned false, and the page is as it was
C22_Witness ==
  \E r \in Requests :
    /\ calls[r].pc = "returned"
    /\ calls[r].op = "update"
    /\ calls[r].tenantId = "tenant2"
    /\ calls[r].result = "false"
    /\ pages[calls[r].id] = [tenantId |-> "tenant1", title |-> "old"]

\* C23: when two requests for different tenants are handled at the same time
\* on one server instance, every repository operation made for one of them
\* filters and validates with the tenant id of its own request, never with
\* the tenant id of the other request.
C23_OwnTenantId ==
  \A r, q \in Requests :
    /\ r # q
    /\ Handling(r)
    /\ Handling(q)
    /\ req[r].site.tenantId # req[q].site.tenantId
    /\ calls[r].pc # "idle"
    /\ calls[r].op \in RepositoryOps
    => calls[r].tenantId = req[r].site.tenantId

\* C24: the middleware initialises the TenantContext for each request: once
\* it has processed a request whose domain resolves to a site, getTenantId()
\* on the server returns the tenantId of that site and does not throw
\* 'Tenant ID not set in server context'.
C24_ContextInitialised ==
  \A r \in Requests :
    /\ calls[r].pc = "returned"
    /\ calls[r].op = "getTenantId"
    => /\ calls[r].result # "throws"
       /\ calls[r].result = calls[r].own

\* ------------------------------------------------------------------------
\* Writers of the cache
\* ------------------------------------------------------------------------
\* C25: the cache is last-writer-wins per key: whatever the interleaving of
\* the puts of requests in flight and of invalidations of a domain D, the
\* entry of D is the one the last of them left: the record and the time of
\* the last put, or no entry when an invalidation (or the expiry found by a
\* get) came last.
C25_LastWriterWins ==
  \A d \in DOMAIN siteCache :
    /\ history[d].op = "put"
       => siteCache[d] = [site |-> history[d].site, timestamp |-> history[d].at]
    /\ history[d].op # "put" => siteCache[d] = NoEntry

\* two requests for one domain have each read the store, one before and one
\* after the document was changed, and both have put what they read: the
\* entry holds the record of the one that put last, here the older record
C25_Witness ==
  \E r1, r2 \in Requests :
    /\ r1 # r2
    /\ Looked(r1)
    /\ Looked(r2)
    /\ req[r1].domain = req[r2].domain
    /\ req[r1].found # NullSite
    /\ req[r2].found # NullSite
    /\ req[r1].found # req[r2].found
    /\ siteCache[req[r1].domain] # NoEntry
    /\ siteCache[req[r1].domain].site = req[r1].found
    /\ \E id \in DOMAIN sites :
         sites[id] # NoDoc /\ siteOfDoc(sites, id) = req[r2].found

\* C27: an entry is absent or present; it becomes present, or gets a new
\* record or time, only through a put; it becomes absent only through the
\* expiry a get finds or through an invalidation.  A get that hits leaves the
\* whole cache unchanged (the time of the entry is not refreshed), and so
\* does a get of a domain that has no entry.
C27_EntryLifecycle ==
  [][ /\ \A d \in DOMAIN siteCache :
           /\ siteCache'[d] # siteCache[d] /\ siteCache'[d] # NoEntry
              => /\ siteCache'[d].timestamp = now
                 /\ history'[d] = [op |-> "put", site |-> siteCache'[d].site,
                                   at |-> now]
                 /\ \E r \in Requests :
                      /\ Arrives(r) \/ Returns(r)
                      /\ req'[r].domain = d
                      /\ req'[r].site = siteCache'[d].site
           /\ siteCache[d] # NoEntry /\ siteCache'[d] = NoEntry
              => \/ \E r \in Requests :
                      /\ Arrives(r)
                      /\ req'[r].domain = d
                      /\ now - siteCache[d].timestamp > CACHE_EXPIRATION_MS
                 \/ req' = req /\ history'[d].op = "invalidate"
      /\ \A r \in Requests :
           Arrives(r) /\ req'[r].cached # NullSite => siteCache' = siteCache
      /\ \A r \in Requests :
           /\ Arrives(r)
           /\ siteCache[req'[r].domain] = NoEntry
           /\ req'[r].pc = "querying"
           => siteCache' = siteCache
    ]_vars

\* a request has been served from an entry that is older than the request:
\* the entry still has the time of its put
C27_Witness ==
  \E r \in Requests :
    /\ req[r].pc = "done"
    /\ req[r].cached # NullSite
    /\ siteCache[req[r].domain] # NoEntry
    /\ siteCache[req[r].domain].site = req[r].cached
    /\ siteCache[req[r].domain].timestamp < now

\* C28: clearSiteCache(key) and the put of a request for key change the entry
\* of key only: the entries of the other keys keep their record and time, and
\* clearSiteCache of a key that has no entry leaves the whole cache unchanged.
C28_OtherKeysKept ==
  [][ /\ \A d \in DOMAIN siteCache :
           InvalidateDomain(d)
           => /\ \A e \in DOMAIN siteCache \ {d} : siteCache'[e] = siteCache[e]
              /\ siteCache[d] = NoEntry => siteCache' = siteCache
      /\ \A r \in Requests :
           Arrives(r) \/ Returns(r)
           => \A e \in DOMAIN siteCache \ {req'[r].domain} :
                siteCache'[e] = siteCache[e]
    ]_vars

\* the entry of one domain has been cleared and the entry of another domain
\* is still there
C28_Witness ==
  \E d, e \in DOMAIN siteCache :
    /\ d # e
    /\ history[d].op = "invalidate"
    /\ siteCache[d] = NoEntry
    /\ siteCache[e] # NoEntry

\* a step of the getSiteByTenantId call of handler r
LookupStep(r) ==
  /\ calls'[r] # calls[r]
  /\ calls[r].op = "getSiteByTenantId" \/ calls'[r].op = "getSiteByTenantId"

\* getSiteByTenantId of handler r returns in this step with a site it read
\* from the store
LookupFinds(r) ==
  /\ calls[r].pc = "fetched"
  /\ calls'[r].pc = "returned"
  /\ calls'[r].result = "site"

\* C26 as it is claimed: the miss path of the lookup by domain name is the
\* only writer of the cache, and getSiteByTenantId leaves the cache unchanged
\* whatever it returns.
C26_Original ==
  [][ \A r \in Requests : LookupStep(r) => siteCache' = siteCache ]_vars

\* C26 as the code has it: the lookup by domain name and getSiteByTenantId
\* are the only writers of the cache; getSiteByTenantId leaves the cache
\* unchanged when it returns null and in mock-data mode, and when it returns
\* a site read from the store it puts that site under the site's domainName
\* (if it has one) and changes no other entry.
C26_LookupCaches ==
  [][ /\ \A r \in Requests :
           LookupStep(r)
           => IF LookupFinds(r) /\ calls[r].found.domainName # ""
              THEN siteCache' =
                     [siteCache EXCEPT ![calls[r].found.domainName] =
                        [site |-> calls[r].found, timestamp |-> now]]
              ELSE siteCache' = siteCache
      /\ \A d \in DOMAIN siteCache :
           siteCache'[d] # siteCache[d] /\ siteCache'[d] # NoEntry
           => \/ \E r \in Requests :
                   (Arrives(r) \/ Returns(r)) /\ req'[r].domain = d
              \/ \E r \in Requests :
                   LookupFinds(r) /\ calls[r].found.domainName = d
    ]_vars

\* getSiteByTenantId has returned the site of tenant1 and the cache holds it
\* under the site's domain name, for which no request has been made
C26_Witness ==
  \E r \in Requests :
    /\ ~useMockData
    /\ calls[r].pc = "returned"
    /\ calls[r].op = "getSiteByTenantId"
    /\ calls[r].result = "site"
    /\ calls[r].found.domainName # ""
    /\ siteCache[calls[r].found.domainName] # NoEntry
    /\ siteCache[calls[r].found.domainName].site = calls[r].found
    /\ \A q \in Requests : req[q].pc = "idle"

\* C29 as it is claimed: every entry of the cache, stored under key K, holds
\* a record whose domainName is K, whichever path wrote it (the lookup by
\* domain name from the store or in mock-data mode, getSiteByTenantId).
C29_Original ==
  \A d \in DOMAIN siteCache :
    siteCache[d] # NoEntry => siteCache[d].site.domainName = d

\* C29 as the code has it: every entry stored under key K holds a record
\* whose domainName is K, except that in mock-data mode a domain that
\* mockSites does not list is cached with the record of 'localhost:3000'.
C29_KeyIsDomainName ==
  \A d \in DOMAIN siteCache :
    siteCache[d] # NoEntry
    => \/ siteCache[d].site.domainName = d
       \/ /\ useMockData
          /\ d \notin DOMAIN mockSites
          /\ siteCache[d].site = mockSites["localhost:3000"]

\* outside mock-data mode both paths have written the entry of a domain:
\* a request has looked the domain up in the store, and getSiteByTenantId
\* has returned the site of that domain and put it under its domainName
C29_Witness ==
  /\ ~useMockData
  /\ \E r, q \in Requests :
       /\ calls[r].pc = "returned"
       /\ calls[r].op = "getSiteByTenantId"
       /\ calls[r].result = "site"
       /\ calls[r].found.domainName # ""
       /\ siteCache[calls[r].found.domainName] # NoEntry
       /\ siteCache[calls[r].found.domainName].site.domainName =
            calls[r].found.domainName
       /\ Looked(q)
       /\ req[q].found # NullSite
       /\ req[q].domain = calls[r].found.domainName

\* ------------------------------------------------------------------------
\* Redirects
\* ------------------------------------------------------------------------
\* C30: following the middleware's redirects ends: the request a client
\* makes for the target of a redirect (/maintenance, /site-inactive,
\* /site-not-found) is not redirected again, whatever the status of the site,
\* the environment and the path first asked for, so a client is redirected at
\* most once.
C30_RedirectedOnce ==
  \A r \in Requests :
    /\ request[r].redirects <= 1
    /\ request[r].redirects = 1 /\ req[r].pc = "done"
       => req[r].response.kind = "next"

\* a client that was redirected has asked for the target and has its response
C30_Witness ==
  \E r \in Requests :
    /\ request[r].redirects = 1
    /\ request[r].path \in {MaintenancePath, SiteInactivePath, SiteNotFoundPath}
    /\ req[r].pc = "done"
    /\ req[r].response.kind = "next"
====
